---- MODULE Spec2Model ----
(***************************************************************************)
(* Linear_Regression_Notes.ipynb: the hypothesis function, the cost        *)
(* function and the gradient-descent update rule of the notes, and the     *)
(* scikit-learn workflow of the two code cells (train_test_split,          *)
(* LinearRegression.fit, predict, mean_squared_error, r2_score).           *)
(*                                                                         *)
(* Real numbers are exact rationals <<n, d>>, d > 0, in lowest terms, so   *)
(* equality of values is equality of pairs.  Floating-point rounding of    *)
(* the library calls is not modelled.                                      *)
(***************************************************************************)
EXTENDS Integers, Sequences, FiniteSets, TLC

VARIABLES
    X, y,               \* the dataset of the notebook
    X_train, y_train,   \* the training samples
    X_test, y_test,     \* the held-out samples
    model,              \* the LinearRegression estimator
    y_pred,             \* model.predict(X_test)
    mse, r2,            \* the two metrics
    pc, err,            \* position in the cells, and the exception raised
    alpha, iterations,  \* learning configuration of gradient descent
    weight, bias, step, \* gradient descent: w, b and the steps done
    gd_pc, gd_err       \* gradient descent: position, and the error reported

gdVars == <<alpha, iterations, weight, bias, step, gd_pc, gd_err>>

vars == <<X, y, X_train, y_train, X_test, y_test, model, y_pred, mse, r2,
          pc, err, gdVars>>

(* Bounds of the generic inputs: feature values 0..MaxX, and at most       *)
(* MaxLen samples in the training and test sets together.                  *)
MaxX == 1
MaxLen == 4

(* The candidate parameters compared with the fitted ones are the halves   *)
(* n/2 with |n| <= GridMax.                                                *)
GridMax == 2

(* The largest iteration count given to gradient descent.                  *)
MaxIter == 500

---------------------------------------------------------------------------
(* Exact rational arithmetic.                                              *)

Abs(a) == IF a < 0 THEN -a ELSE a

RECURSIVE GCD(_, _)
GCD(a, b) == IF b = 0 THEN a ELSE GCD(b, a % b)

Norm(n, d) ==
    LET g == GCD(Abs(n), Abs(d))
        s == IF d < 0 THEN -1 ELSE 1
    IN  <<(s * n) \div g, (s * d) \div g>>

R(n) == <<n, 1>>
RAdd(p, q) == Norm(p[1] * q[2] + q[1] * p[2], p[2] * q[2])
RSub(p, q) == Norm(p[1] * q[2] - q[1] * p[2], p[2] * q[2])
RMul(p, q) == Norm(p[1] * q[1], p[2] * q[2])
RDiv(p, q) == Norm(p[1] * q[2], p[2] * q[1])
RLe(p, q) == p[1] * q[2] <= q[1] * p[2]
RLt(p, q) == p[1] * q[2] < q[1] * p[2]

RECURSIVE RSum(_)
RSum(s) == IF s = <<>> THEN R(0) ELSE RAdd(s[1], RSum(Tail(s)))

RECURSIVE ISum(_)
ISum(s) == IF s = <<>> THEN 0 ELSE s[1] + ISum(Tail(s))

(* np.array of integers, read as reals *)
ToR(s) == [i \in DOMAIN s |-> R(s[i])]

(* np.average over the sample axis *)
Mean(s) == RDiv(RSum(s), R(Len(s)))

---------------------------------------------------------------------------
(* Variant of Hypothesis with the roles of w and b exchanged.              *)
HypothesisSwapped(w, b, x) == RAdd(RMul(b, x), w)

(* The hypothesis function  y^ = f(x) = w x + b.                           *)
Hypothesis(w, b, x) == RAdd(RMul(w, x), b)

(* An estimator: LinearRegression() before fit has no coef_/intercept_.    *)
Unfitted == [fitted |-> FALSE, coef |-> R(0), intercept |-> R(0)]

(* scipy.linalg.lstsq on a single centred column A: the minimum-norm       *)
(* least-squares solution, 0 when the column is all zeros (rank 0).        *)
Lstsq(A, t) ==
    LET ss == RSum([i \in DOMAIN A |-> RMul(A[i], A[i])])
        st == RSum([i \in DOMAIN A |-> RMul(A[i], t[i])])
    IN  IF ss = R(0) THEN R(0) ELSE RDiv(st, ss)

(* Variant of LinearRegressionFit that does not centre the data: the line  *)
(* is fitted through the origin.                                           *)
LinearRegressionFitThroughOrigin(Xs, ys) ==
    [fitted |-> TRUE, coef |-> Lstsq(ToR(Xs), ToR(ys)), intercept |-> R(0)]

(* LinearRegression.fit(X, y) with fit_intercept=True on n >= 1 samples:   *)
(* centre X and y on their means, solve the centred least-squares problem, *)
(* intercept_ = y_offset - X_offset * coef_.                               *)
LinearRegressionFit(Xs, ys) ==
    LET X_offset == Mean(ToR(Xs))
        y_offset == Mean(ToR(ys))
        Xc == [i \in DOMAIN Xs |-> RSub(R(Xs[i]), X_offset)]
        yc == [i \in DOMAIN ys |-> RSub(R(ys[i]), y_offset)]
        coef == Lstsq(Xc, yc)
    IN  [fitted |-> TRUE, coef |-> coef,
         intercept |-> RSub(y_offset, RMul(X_offset, coef))]

(* Variant of ModelPredict that leaves the intercept out.                  *)
ModelPredictNoIntercept(m, Xs) ==
    [i \in DOMAIN Xs |-> RMul(m.coef, R(Xs[i]))]

(* model.predict(X): X @ coef_ + intercept_, the hypothesis per row.       *)
ModelPredict(m, Xs) ==
    [i \in DOMAIN Xs |-> Hypothesis(m.coef, m.intercept, R(Xs[i]))]

(* A metric value: a number, or NaN.                                       *)
Num(v) == [nan |-> FALSE, val |-> v]
NaN == [nan |-> TRUE, val |-> R(0)]

SqErr(yt, yp) ==
    [i \in DOMAIN yt |-> RMul(RSub(R(yt[i]), yp[i]), RSub(R(yt[i]), yp[i]))]

(* mean_squared_error(y_true, y_pred): the average squared residual.       *)
MeanSquaredError(yt, yp) == Num(Mean(SqErr(yt, yp)))

(* Variant of R2Score without the check for fewer than two samples.        *)
R2ScoreNoSampleCheck(yt, yp) ==
    LET numerator == RSum(SqErr(yt, yp))
        ybar == Mean(ToR(yt))
        denominator ==
            RSum([i \in DOMAIN yt |->
                     RMul(RSub(R(yt[i]), ybar), RSub(R(yt[i]), ybar))])
    IN  IF denominator # R(0)
        THEN Num(RSub(R(1), RDiv(numerator, denominator)))
        ELSE IF numerator # R(0) THEN Num(R(0))
        ELSE Num(R(1))

(* Variant of R2Score that leaves a zero denominator as NaN instead of     *)
(* replacing it by a finite score.                                         *)
R2ScoreNotFinite(yt, yp) ==
    LET numerator == RSum(SqErr(yt, yp))
        ybar == Mean(ToR(yt))
        denominator ==
            RSum([i \in DOMAIN yt |->
                     RMul(RSub(R(yt[i]), ybar), RSub(R(yt[i]), ybar))])
    IN  IF Len(yt) < 2 THEN NaN
        ELSE IF denominator # R(0)
             THEN Num(RSub(R(1), RDiv(numerator, denominator)))
        ELSE NaN

(* r2_score(y_true, y_pred): NaN (with a warning) on fewer than two        *)
(* samples; 1 - SS_res / SS_tot when SS_tot is non-zero; with SS_tot zero, *)
(* 1 for a perfect prediction and 0 otherwise.                             *)
R2Score(yt, yp) ==
    LET numerator == RSum(SqErr(yt, yp))
        ybar == Mean(ToR(yt))
        denominator ==
            RSum([i \in DOMAIN yt |->
                     RMul(RSub(R(yt[i]), ybar), RSub(R(yt[i]), ybar))])
    IN  IF Len(yt) < 2 THEN NaN
        ELSE IF denominator # R(0)
             THEN Num(RSub(R(1), RDiv(numerator, denominator)))
        ELSE IF numerator # R(0) THEN Num(R(0))
        ELSE Num(R(1))

---------------------------------------------------------------------------
(* The workflow on generic inputs: a training set is given, then fit,      *)
(* predict (on a test set given to it) and the two metrics run in the      *)
(* order of the notebook's cells.  An exception raised by a call ends the  *)
(* run.                                                                    *)

(* Gradient descent is not running.                                        *)
GDIdle ==
    /\ alpha = R(0)
    /\ iterations = 0
    /\ weight = 0
    /\ bias = 0
    /\ step = 0
    /\ gd_pc = "idle"
    /\ gd_err = "none"

(* The generic samples: feature values 0..MaxX, target values 0 and 1.     *)
Features == 0 .. MaxX
Targets == {0, 1}

SeqsOf(S, n) == [1 .. n -> S]

Init ==
    /\ \E nt \in 0 .. MaxLen :
         /\ X_train \in SeqsOf(Features, nt)
         /\ y_train \in SeqsOf(Targets, nt)
    /\ X_test = <<>>
    /\ y_test = <<>>
    /\ X = <<>>
    /\ y = <<>>
    /\ model = Unfitted
    /\ y_pred = <<>>
    /\ mse = NaN
    /\ r2 = NaN
    /\ pc = "split"
    /\ err = "none"
    /\ GDIdle

(* Variant of Fit that requires at least two samples.                      *)
FitMinTwoSamples ==
    /\ pc = "split"
    /\ IF Len(X_train) < 2
       THEN /\ err' = "ValueError"
            /\ pc' = "raised"
            /\ UNCHANGED model
       ELSE /\ model' = LinearRegressionFit(X_train, y_train)
            /\ pc' = "fitted"
            /\ UNCHANGED err
    /\ UNCHANGED <<X, y, X_train, y_train, X_test, y_test, y_pred, mse, r2>>
    /\ UNCHANGED gdVars

(* model = LinearRegression(); model.fit(X_train, y_train)                 *)
(* check_array rejects an input with 0 samples with a ValueError.          *)
Fit ==
    /\ pc = "split"
    /\ IF Len(X_train) = 0
       THEN /\ err' = "ValueError"
            /\ pc' = "raised"
            /\ UNCHANGED model
       ELSE /\ model' = LinearRegressionFit(X_train, y_train)
            /\ pc' = "fitted"
            /\ UNCHANGED err
    /\ UNCHANGED <<X, y, X_train, y_train, X_test, y_test, y_pred, mse, r2>>
    /\ UNCHANGED gdVars

(* y_pred = model.predict(X_test)                                          *)
(* check_array rejects an input with 0 samples with a ValueError.          *)
PredictOn(Xs, ys) ==
    /\ pc = "fitted"
    /\ X_test' = Xs
    /\ y_test' = ys
    /\ IF Len(Xs) = 0
       THEN /\ err' = "ValueError"
            /\ pc' = "raised"
            /\ UNCHANGED y_pred
       ELSE /\ y_pred' = ModelPredict(model, Xs)
            /\ pc' = "predicted"
            /\ UNCHANGED err
    /\ UNCHANGED <<X, y, X_train, y_train, model, mse, r2>>
    /\ UNCHANGED gdVars

PredictAny ==
    \E ne \in 0 .. (MaxLen - Len(X_train)) :
        \E Xs \in SeqsOf(Features, ne) : \E ys \in SeqsOf(Targets, ne) :
            PredictOn(Xs, ys)

(* mse = mean_squared_error(y_test, y_pred); r2 = r2_score(y_test, y_pred) *)
Evaluate ==
    /\ pc = "predicted"
    /\ mse' = MeanSquaredError(y_test, y_pred)
    /\ r2' = R2Score(y_test, y_pred)
    /\ pc' = "evaluated"
    /\ UNCHANGED <<X, y, X_train, y_train, X_test, y_test, model, y_pred, err>>
    /\ UNCHANGED gdVars

Next == Fit \/ PredictAny \/ Evaluate

Spec == Init /\ [][Next]_vars


---------------------------------------------------------------------------
(* The notebook's own run: the five-sample dataset, the split, fit,        *)
(* predict and the metrics.                                                *)

(* X = np.array([1, 2, 3, 4, 5]).reshape(-1, 1); y = np.array([30, ...])   *)
NotebookX == <<1, 2, 3, 4, 5>>
NotebookY == <<30, 35, 40, 45, 50>>

(* test_size=0.2 *)
TestSize == <<1, 5>>

Ceil(q) == -((-q[1]) \div q[2])

(* Variant of TrainTestSplit whose training indices start at the front of  *)
(* the permutation, so that they overlap the test indices.                 *)
TrainTestSplitOverlap(Xs, ys, test_size, perm) ==
    LET n_samples == Len(Xs)
        n_test == Ceil(RMul(test_size, R(n_samples)))
        n_train == n_samples - n_test
    IN  [X_train |-> [i \in 1 .. n_train |-> Xs[perm[i]]],
         y_train |-> [i \in 1 .. n_train |-> ys[perm[i]]],
         X_test |-> [i \in 1 .. n_test |-> Xs[perm[i]]],
         y_test |-> [i \in 1 .. n_test |-> ys[perm[i]]]]

(* train_test_split(X, y, test_size, random_state): n_test =               *)
(* ceil(test_size * n), n_train = n - n_test; the samples are shuffled by  *)
(* a permutation, the first n_test of it are the test indices and the next *)
(* n_train the training indices; X and y are indexed alike.                *)
TrainTestSplit(Xs, ys, test_size, perm) ==
    LET n_samples == Len(Xs)
        n_test == Ceil(RMul(test_size, R(n_samples)))
        n_train == n_samples - n_test
    IN  [X_train |-> [i \in 1 .. n_train |-> Xs[perm[n_test + i]]],
         y_train |-> [i \in 1 .. n_train |-> ys[perm[n_test + i]]],
         X_test |-> [i \in 1 .. n_test |-> Xs[perm[i]]],
         y_test |-> [i \in 1 .. n_test |-> ys[perm[i]]]]

InitNotebook ==
    /\ X = NotebookX
    /\ y = NotebookY
    /\ X_train = <<>>
    /\ y_train = <<>>
    /\ X_test = <<>>
    /\ y_test = <<>>
    /\ model = Unfitted
    /\ y_pred = <<>>
    /\ mse = NaN
    /\ r2 = NaN
    /\ pc = "loaded"
    /\ err = "none"
    /\ GDIdle

(* X_train, X_test, y_train, y_test = train_test_split(X, y,               *)
(* test_size=0.2, random_state=42).  The permutation the seeded generator  *)
(* draws is any permutation of the sample indices.                         *)
Split ==
    /\ pc = "loaded"
    /\ \E perm \in Permutations(DOMAIN X) :
          LET parts == TrainTestSplit(X, y, TestSize, perm)
          IN  /\ X_train' = parts.X_train
              /\ y_train' = parts.y_train
              /\ X_test' = parts.X_test
              /\ y_test' = parts.y_test
    /\ pc' = "split"
    /\ UNCHANGED <<X, y, model, y_pred, mse, r2, err>>
    /\ UNCHANGED gdVars

(* y_pred = model.predict(X_test) *)
Predict == PredictOn(X_test, y_test)

NextNotebook == Split \/ Fit \/ Predict \/ Evaluate

SpecNotebook == InitNotebook /\ [][NextNotebook]_vars

---------------------------------------------------------------------------
(* Gradient descent on the cost function of the notes,                     *)
(*     J(w, b) = 1/(2m) * SUM (y^(i) - y(i))^2,   y^ = w x + b,            *)
(* with the update rule  w := w - alpha dJ/dw,  b := b - alpha dJ/db.      *)
(* The iterates are fixed-point numbers: an integer v stands for           *)
(* v / Scale, and every division rounds down.  The learning rate is a      *)
(* rational <<n, d>>.                                                      *)

Scale == 10^6

(* y^(i) - y(i) for each sample, at the parameters (w, b) *)
Residuals(w, b, Xs, ys) ==
    [i \in DOMAIN Xs |-> w * Xs[i] + b - ys[i] * Scale]

(* dJ/dw = (1/m) SUM (y^(i) - y(i)) x(i) *)
GradW(w, b, Xs, ys) ==
    ISum([i \in DOMAIN Xs |-> Residuals(w, b, Xs, ys)[i] * Xs[i]])
        \div Len(Xs)

(* dJ/db = (1/m) SUM (y^(i) - y(i)) *)
GradB(w, b, Xs, ys) == ISum(Residuals(w, b, Xs, ys)) \div Len(Xs)

(* One application of the update rule: both gradients are taken at the     *)
(* parameters before the step.                                             *)
UpdateRule(w, b, a, Xs, ys) ==
    <<w - (a[1] * GradW(w, b, Xs, ys)) \div a[2],
      b - (a[1] * GradB(w, b, Xs, ys)) \div a[2]>>

(* A learning configuration is valid when alpha > 0 and n >= 1.            *)
InvalidConfiguration(a, n) == a[1] <= 0 \/ n <= 0

(* The sample sets, learning rates and iteration counts tried.             *)
GDSampleSets ==
    {[X |-> NotebookX, y |-> NotebookY],
     [X |-> <<1, 2>>, y |-> <<0, 0>>],
     [X |-> <<0, 1, 2>>, y |-> <<1, 0, 1>>]}
LearningRates == {<<1, 10>>, <<3, 20>>, <<0, 1>>, <<-1, 10>>}
IterCounts == {-1, 0, 1, 2, MaxIter}

InitGD ==
    /\ X = <<>>
    /\ y = <<>>
    /\ \E s \in GDSampleSets : X_train = s.X /\ y_train = s.y
    /\ X_test = <<>>
    /\ y_test = <<>>
    /\ model = Unfitted
    /\ y_pred = <<>>
    /\ mse = NaN
    /\ r2 = NaN
    /\ pc = "split"
    /\ err = "none"
    /\ alpha \in LearningRates
    /\ iterations \in IterCounts
    /\ weight = 0
    /\ bias = 0
    /\ step = 0
    /\ gd_pc = "start"
    /\ gd_err = "none"

pipeVars == <<X, y, X_train, y_train, X_test, y_test, model, y_pred, mse, r2,
              pc, err>>

(* Variant of GDStart that does not validate the configuration.            *)
GDStartUnchecked ==
    /\ gd_pc = "start"
    /\ weight' = 0
    /\ bias' = 0
    /\ step' = 0
    /\ gd_pc' = "loop"
    /\ UNCHANGED <<alpha, iterations, gd_err>>
    /\ UNCHANGED pipeVars

(* fit_gradient_descent, entry: an invalid configuration is reported as    *)
(* InvalidConfiguration; otherwise (w, b) = (0, 0) and the loop starts.    *)
GDStart ==
    /\ gd_pc = "start"
    /\ IF InvalidConfiguration(alpha, iterations)
       THEN /\ gd_err' = "InvalidConfiguration"
            /\ gd_pc' = "raised"
            /\ UNCHANGED <<weight, bias, step>>
       ELSE /\ weight' = 0
            /\ bias' = 0
            /\ step' = 0
            /\ gd_pc' = "loop"
            /\ UNCHANGED gd_err
    /\ UNCHANGED <<alpha, iterations>>
    /\ UNCHANGED pipeVars

(* Variant of GDIter that updates w and leaves b alone.                    *)
GDIterWeightOnly ==
    /\ gd_pc = "loop"
    /\ step < iterations
    /\ weight' = UpdateRule(weight, bias, alpha, X_train, y_train)[1]
    /\ step' = step + 1
    /\ UNCHANGED <<alpha, iterations, bias, gd_pc, gd_err>>
    /\ UNCHANGED pipeVars

(* fit_gradient_descent, one iteration of the fixed-count loop *)
GDIter ==
    /\ gd_pc = "loop"
    /\ step < iterations
    /\ LET u == UpdateRule(weight, bias, alpha, X_train, y_train)
       IN  weight' = u[1] /\ bias' = u[2]
    /\ step' = step + 1
    /\ UNCHANGED <<alpha, iterations, gd_pc, gd_err>>
    /\ UNCHANGED pipeVars

(* Variant of GDReturn that also returns once a step would leave (w, b)    *)
(* unchanged (a convergence check).                                        *)
GDReturnConverged ==
    /\ gd_pc = "loop"
    /\ \/ ~(step < iterations)
       \/ UpdateRule(weight, bias, alpha, X_train, y_train) = <<weight, bias>>
    /\ gd_pc' = "done"
    /\ UNCHANGED <<alpha, iterations, weight, bias, step, gd_err>>
    /\ UNCHANGED pipeVars

(* fit_gradient_descent, return of (w, b) after the loop *)
GDReturn ==
    /\ gd_pc = "loop"
    /\ ~(step < iterations)
    /\ gd_pc' = "done"
    /\ UNCHANGED <<alpha, iterations, weight, bias, step, gd_err>>
    /\ UNCHANGED pipeVars

GDNext == GDStart \/ GDIter \/ GDReturn

NextGD == Fit \/ GDNext

(* The code is single-threaded and synchronous: a call of gradient descent *)
(* that can take a step takes it.                                          *)
SpecGD == InitGD /\ [][NextGD]_vars /\ WF_vars(GDNext)

---------------------------------------------------------------------------
(* Properties of the workflow on generic inputs.                           *)

Range(s) == {s[i] : i \in DOMAIN s}
DistinctX(Xs) == Cardinality(Range(Xs)) >= 2

(* Sum of squared residuals of the line (w, b) over the samples.           *)
SSE(w, b, Xs, ys) ==
    RSum([i \in DOMAIN Xs |->
             RMul(RSub(Hypothesis(w, b, R(Xs[i])), R(ys[i])),
                  RSub(Hypothesis(w, b, R(Xs[i])), R(ys[i])))])

(* The candidates are the pairs (n/2, k/2), n and k in Grid; the sum of    *)
(* squared residuals of a candidate is SSE2(n, k, Xs, ys) / 4.             *)
Grid == -GridMax .. GridMax
SSE2(n, k, Xs, ys) ==
    <<ISum([i \in DOMAIN Xs |->
              (n * Xs[i] + k - 2 * ys[i]) * (n * Xs[i] + k - 2 * ys[i])]), 4>>

(* First-order optimality of (w, b): the residuals sum to zero and are     *)
(* orthogonal to x.  The cost is a convex quadratic, so this holds exactly *)
(* at its global minimisers.                                               *)
Stationary(w, b, Xs, ys) ==
    /\ RSum([i \in DOMAIN Xs |-> RSub(Hypothesis(w, b, R(Xs[i])), R(ys[i]))])
         = R(0)
    /\ RSum([i \in DOMAIN Xs |->
                RMul(RSub(Hypothesis(w, b, R(Xs[i])), R(ys[i])), R(Xs[i]))])
         = R(0)

(* C1: on a training set with at least two distinct x values, the fitted   *)
(* (coef_, intercept_) minimises the sum of squared residuals: no          *)
(* candidate pair (w2, b2) has a strictly smaller sum, and the fitted pair *)
(* is a stationary point of the cost.                                      *)
C1_FitMinimisesSSE ==
    (pc = "fitted" /\ DistinctX(X_train)) =>
        /\ LET best == SSE(model.coef, model.intercept, X_train, y_train)
           IN  \A n \in Grid : \A k \in Grid :
                  RLe(best, SSE2(n, k, X_train, y_train))
        /\ Stationary(model.coef, model.intercept, X_train, y_train)

(* Three training samples not on one line, a fit with non-zero residual    *)
(* and a candidate that is strictly worse.                                 *)
C1_Witness ==
    /\ pc = "fitted"
    /\ DistinctX(X_train)
    /\ Len(X_train) = 3
    /\ RLt(R(0), SSE(model.coef, model.intercept, X_train, y_train))
    /\ model.coef[2] # 1
    /\ \E n \in Grid : \E k \in Grid :
          RLt(SSE(model.coef, model.intercept, X_train, y_train),
              SSE2(n, k, X_train, y_train))

(* The normal-equation formula on the raw samples, scaled by m so that it  *)
(* is computed over the integers: w = S(x-xbar)(y-ybar) / S(x-xbar)^2,     *)
(* b = ybar - w xbar, and its value at x.                                  *)
NormalEqW(Xs, ys) ==
    LET m == Len(Xs)
        Sx == ISum(Xs)
        Sy == ISum(ys)
    IN  Norm(ISum([i \in DOMAIN Xs |-> (m * Xs[i] - Sx) * (m * ys[i] - Sy)]),
             ISum([i \in DOMAIN Xs |-> (m * Xs[i] - Sx) * (m * Xs[i] - Sx)]))

NormalEqB(Xs, ys) ==
    RSub(Norm(ISum(ys), Len(ys)),
         RMul(NormalEqW(Xs, ys), Norm(ISum(Xs), Len(Xs))))

NormalEqAt(Xs, ys, x) ==
    RAdd(RMul(NormalEqW(Xs, ys), R(x)), NormalEqB(Xs, ys))

(* C2: on a training set with at least two distinct x values, fit followed *)
(* by predict gives, at every training x value, the value of the           *)
(* normal-equation line at that x: both for the predictions the workflow   *)
(* made for test points that are training x values, and for predict        *)
(* applied to the training inputs themselves.                              *)
C2_PredictMatchesNormalEquation ==
    (model.fitted /\ DistinctX(X_train)) =>
        /\ pc = "fitted" =>
              \A i \in DOMAIN X_train :
                  ModelPredict(model, X_train)[i]
                    = NormalEqAt(X_train, y_train, X_train[i])
        /\ pc \in {"predicted", "evaluated"} =>
              \A i \in DOMAIN X_test :
                  X_test[i] \in Range(X_train) =>
                      y_pred[i] = NormalEqAt(X_train, y_train, X_test[i])

(* Predictions were made at a training x value by a line with a fractional *)
(* slope and non-zero intercept.                                           *)
C2_Witness ==
    /\ pc = "predicted"
    /\ DistinctX(X_train)
    /\ Len(X_train) = 3
    /\ model.coef[2] # 1
    /\ model.intercept # R(0)
    /\ \E i \in DOMAIN X_test : X_test[i] \in Range(X_train)

(* The inputs whose normal-equation denominator is zero.                   *)
Degenerate(Xs) == Cardinality(Range(Xs)) <= 1

PerfectFit ==
    \A i \in DOMAIN X_test :
        R(y_test[i]) = Hypothesis(model.coef, model.intercept, R(X_test[i]))

(* C4 as stated: on a perfect fit the metrics are mse = 0 and r2 = 1 for   *)
(* every non-empty evaluated sample set.                                   *)
C4_Original ==
    (pc = "evaluated" /\ PerfectFit) => (mse = Num(R(0)) /\ r2 = Num(R(1)))

(* C4 amended: on a perfect fit mse = 0 for every non-empty evaluated      *)
(* sample set, and r2 = 1 when at least two samples are evaluated; over a  *)
(* single sample r2 is NaN.                                                *)
C4_PerfectFitMetrics ==
    (pc = "evaluated" /\ PerfectFit) =>
        /\ mse = Num(R(0))
        /\ Len(y_test) >= 2 => r2 = Num(R(1))
        /\ Len(y_test) = 1 => r2 = NaN

(* A perfect fit with non-zero slope evaluated over two different samples. *)
C4_Witness ==
    /\ pc = "evaluated"
    /\ PerfectFit
    /\ Len(y_test) = 2
    /\ model.coef # R(0)
    /\ y_test[1] # y_test[2]

(* C5 as stated: r2 is never a number when all evaluated y values are      *)
(* identical.                                                              *)
C5_Original ==
    (pc = "evaluated" /\ Cardinality(Range(y_test)) = 1) => r2.nan

(* C5 amended: r2 is NaN on every evaluation over a single sample; over    *)
(* two or more samples whose y values are all identical r2 is a number, 1  *)
(* when every prediction is exact and 0 otherwise.                         *)
C5_ConstantTargetR2 ==
    (pc = "evaluated" /\ Cardinality(Range(y_test)) = 1) =>
        IF Len(y_test) = 1 THEN r2 = NaN
        ELSE IF \A i \in DOMAIN y_test : y_pred[i] = R(y_test[i])
             THEN r2 = Num(R(1))
             ELSE r2 = Num(R(0))

(* Two samples with the same y evaluated against inexact predictions.      *)
C5_Witness ==
    /\ pc = "evaluated"
    /\ Len(y_test) = 2
    /\ y_test[1] = y_test[2]
    /\ y_pred[1] # R(y_test[1])
    /\ r2 = Num(R(0))

(* C7: every prediction is exactly w x + b (stated over the integers:      *)
(* with w = wn/wd, b = bn/bd and p = pn/pd,                                *)
(* pn wd bd = pd (wn x bd + bn wd)); w = 5, b = 25, x = 3 gives 40; and    *)
(* predict is linear: p(x1) + p(x2) - p(0) = p(x1 + x2).                   *)
C7_PredictIsAffine ==
    /\ ModelPredict([fitted |-> TRUE, coef |-> R(5), intercept |-> R(25)],
                    <<3>>) = <<R(40)>>
    /\ pc \in {"predicted", "evaluated"} =>
          /\ \A i \in DOMAIN X_test :
                y_pred[i][1] * model.coef[2] * model.intercept[2]
                  = y_pred[i][2]
                      * (model.coef[1] * X_test[i] * model.intercept[2]
                           + model.intercept[1] * model.coef[2])
          /\ \A x1 \in Range(X_test) : \A x2 \in Range(X_test) :
                RSub(RAdd(ModelPredict(model, <<x1>>)[1],
                          ModelPredict(model, <<x2>>)[1]),
                     ModelPredict(model, <<0>>)[1])
                  = ModelPredict(model, <<x1 + x2>>)[1]

(* Predictions made at a non-zero point by a line with a   *)
(* fractional slope and a non-zero intercept.                              *)
C7_Witness ==
    /\ pc = "predicted"
    /\ model.coef[2] # 1
    /\ model.intercept # R(0)
    /\ \E i \in DOMAIN X_test : X_test[i] # 0

---------------------------------------------------------------------------
(* Properties of the notebook's own run.                                   *)

(* C10: the five samples are split into four training samples and one      *)
(* disjoint held-out sample (each x still paired with its own y); whatever *)
(* sample is held out, the fit on the other four has slope 5 and intercept *)
(* 25, the prediction for the held-out sample is its target, and the test  *)
(* mean squared error is 0.                                                *)
C10_NotebookRun ==
    /\ pc # "loaded" =>
          /\ Len(X_train) = 4 /\ Len(y_train) = 4
          /\ Len(X_test) = 1 /\ Len(y_test) = 1
          /\ Range(X_train) \cap Range(X_test) = {}
          /\ Range(X_train) \cup Range(X_test) = Range(X)
          /\ \A i \in DOMAIN X_train :
                \E j \in DOMAIN X : X_train[i] = X[j] /\ y_train[i] = y[j]
          /\ \E j \in DOMAIN X : X_test[1] = X[j] /\ y_test[1] = y[j]
    /\ model.fitted => model.coef = R(5) /\ model.intercept = R(25)
    /\ pc \in {"predicted", "evaluated"} => y_pred = <<R(y_test[1])>>
    /\ pc = "evaluated" => mse = Num(R(0))

(* The run has finished with the sample (2, 35) held out.                  *)
C10_Witness ==
    /\ pc = "evaluated"
    /\ X_test = <<2>>
    /\ y_test = <<35>>
    /\ X_train = <<5, 3, 1, 4>>
    /\ mse = Num(R(0))

---------------------------------------------------------------------------
(* Properties of gradient descent.                                         *)

OnNotebookSamples == X_train = NotebookX /\ y_train = NotebookY

Tolerance == Scale \div 100

(* C6: on the samples (1,30), (2,35), (3,40), (4,45), (5,50), gradient     *)
(* descent with a learning rate of 1/10 or 3/20 and MaxIter iterations     *)
(* returns w within 1e-2 of 5 and b within 1e-2 of 25, and so does the     *)
(* closed-form fit.                                                        *)
C6_BothRecoverLine ==
    OnNotebookSamples =>
        /\ (gd_pc = "done" /\ iterations = MaxIter) =>
              /\ Abs(weight - 5 * Scale) <= Tolerance
              /\ Abs(bias - 25 * Scale) <= Tolerance
        /\ model.fitted =>
              /\ RLe(RSub(model.coef, R(5)), <<1, 100>>)
              /\ RLe(RSub(R(5), model.coef), <<1, 100>>)
              /\ RLe(RSub(model.intercept, R(25)), <<1, 100>>)
              /\ RLe(RSub(R(25), model.intercept), <<1, 100>>)

(* Both fits have finished on the five samples, gradient descent after     *)
(* MaxIter steps that moved (w, b) away from (0, 0).                       *)
C6_Witness ==
    /\ OnNotebookSamples
    /\ gd_pc = "done"
    /\ iterations = MaxIter
    /\ step = MaxIter
    /\ weight # 0
    /\ model.fitted

Simultaneous(p, a, Xs, ys) ==
    <<p[1] - (a[1] * GradW(p[1], p[2], Xs, ys)) \div a[2],
      p[2] - (a[1] * GradB(p[1], p[2], Xs, ys)) \div a[2]>>

(* The parameters after i update steps from p: the first half of the steps *)
(* gives q, the second half continues from q (halving keeps the recursion  *)
(* shallow).                                                               *)
RECURSIVE IterateFrom(_, _, _, _, _)
IterateFrom(p, i, a, Xs, ys) ==
    IF i = 0 THEN p
    ELSE IF i = 1 THEN Simultaneous(p, a, Xs, ys)
    ELSE CHOOSE r \in {IterateFrom(q, i - i \div 2, a, Xs, ys) :
                          q \in {IterateFrom(p, i \div 2, a, Xs, ys)}} : TRUE

(* The parameters after i update steps from (0, 0). *)
Iterate(i, a, Xs, ys) == IterateFrom(<<0, 0>>, i, a, Xs, ys)

ValidConfiguration == alpha[1] > 0 /\ iterations >= 1

(* C9: with a valid configuration gradient descent terminates; it starts   *)
(* from (w, b) = (0, 0); every step computes both gradients from the       *)
(* parameters before the step and updates both; it returns after exactly n *)
(* steps, with the n-th iterate, not earlier when the parameters have      *)
(* stopped changing and not later.                                         *)
C9_FixedCountLoop ==
    /\ [](gd_pc = "loop" => (step <= iterations /\ ValidConfiguration))
    /\ []((gd_pc = "loop" /\ step = 0) => (weight = 0 /\ bias = 0))
    /\ []((gd_pc = "done") =>
            /\ step = iterations
            /\ <<weight, bias>> = Iterate(iterations, alpha, X_train, y_train))
    /\ [][(gd_pc = "loop" /\ <<weight, bias, step>>' # <<weight, bias, step>>)
            => /\ step' = step + 1
               /\ weight' = weight
                    - (alpha[1] * GradW(weight, bias, X_train, y_train))
                        \div alpha[2]
               /\ bias' = bias
                    - (alpha[1] * GradB(weight, bias, X_train, y_train))
                        \div alpha[2]]_vars
    /\ [][(gd_pc = "loop" /\ gd_pc' # "loop")
            => (gd_pc' = "done" /\ step = iterations)]_vars
    /\ (gd_pc = "start" /\ ValidConfiguration) ~> (gd_pc = "done")

(* Gradient descent has returned after all n >= 2 steps although a further *)
(* step would leave (w, b) unchanged.                                      *)
C9_Witness ==
    /\ gd_pc = "done"
    /\ iterations >= 2
    /\ step = iterations
    /\ UpdateRule(weight, bias, alpha, X_train, y_train) = <<weight, bias>>

====
